---- MODULE Spec2Model ----
(***************************************************************************)
(* Model of claude_code_tools/tmux_cli_controller.py: the pane controller  *)
(* TmuxCLIController, the CLI facade in local (attached) mode, the tmux    *)
(* window they act on, and the polling loop of wait_for_idle.              *)
(*                                                                         *)
(* Spec      the controller and the facade: one action per method, acting  *)
(*           on the panes of the current window through the bridge         *)
(*           (_run_tmux_command), plus panes exiting out-of-band.          *)
(* SpecIdle  one wait_for_idle call, tick by tick, against a clock and a   *)
(*           pane whose content changes on its own.                        *)
(* SpecSend  one send_keys call, bridge call by bridge call, against the   *)
(*           clock.                                                        *)
(***************************************************************************)
EXTENDS Integers, Sequences, FiniteSets, TLC

\* ---------------------------------------------------------------- bounds
MaxIds == 3          \* tmux allocates the pane ids %0 .. %(MaxIds-1)
MaxIdle == 3         \* idle_time is drawn from 0 .. MaxIdle
MaxInterval == 2     \* check_interval is drawn from 1 .. MaxInterval
MaxTimeout == 4      \* a supplied timeout is drawn from 0 .. MaxTimeout
MaxLatency == 2      \* a capture takes 0 .. MaxLatency time units
MaxOversleep == 1    \* time.sleep returns 0 .. MaxOversleep late

\* the clock of SpecIdle stops at MaxTime: late enough for a call started by
\* time 1 to see any supplied timeout exceeded, after a last capture and sleep
MaxTime == 1 + MaxTimeout + MaxLatency + MaxInterval

\* ------------------------------------------------------- python values
None == "None"       \* Python's None, for the optional string arguments
NoIndex == -1        \* pane_index=None
NoTimeout == -1      \* timeout=None

Truthy(s) == s # None /\ s # ""

\* Python's `a or b`
Or(a, b) == IF Truthy(a) THEN a ELSE b

\* tmux prints a pane id as %N and a pane index as a decimal string
Handle(n) == "%" \o ToString(n)

Handles == {Handle(n) : n \in 0..(MaxIds - 1)}

Digits == {ToString(i) : i \in 0..MaxIds}

\* str.isdigit() on the identifiers the facade is given
IsDigit(s) == s \in Digits

\* int(s) of a decimal string
ParseInt(s) == CHOOSE i \in 0..MaxIds : ToString(i) = s

\* the error messages that are raised
NoTargetSpecified == "No target pane specified"

SelfTerminationRejected == "Error: Cannot kill own pane! This would terminate your session."

InvalidDirection == "Invalid direction"

\* ---------------------------------------------------------------- state
VARIABLES
    panes,          \* tmux: the live panes of the current window, in index order
    own,            \* tmux: the pane hosting the caller
    nextId,         \* tmux: the number of the next pane id it will allocate
    alive,          \* the caller's process is still running (its pane was not killed)
    target_pane,    \* TmuxCLIController.target_pane
    last,           \* the call that has just returned: its arguments, outcome and
                    \* bridge commands; NoCall once the caller has taken the outcome
    resolved,       \* the pane index whose resolution gave target_pane (NoIndex
                    \* when it was set otherwise), and whether a pane exited since
    killed,         \* the handles of the panes this controller's kill-pane closed
    wpc,            \* wait_for_idle: position in the loop
    now,            \* the clock, time.time()
    idle_time, check_interval, timeout,     \* wait_for_idle: arguments
    start_time, last_change_time, last_hash, \* wait_for_idle: locals
    wresult,        \* wait_for_idle: returned value
    screen,         \* the content the watched pane shows
    top_time,       \* time of the latest deadline check (line 430)
    prev_hash,      \* fingerprint compared against at the latest tick
    cur_hash,       \* fingerprint of the latest capture
    diff_time,      \* completion time of the latest capture that differed
    all_same,       \* every capture so far returned the same content
    overhead,       \* time spent inside captures so far
    sk,             \* send_keys: arguments, position, and the log of its bridge calls
    environ,        \* os.environ.get('TMUX'), None when the variable is unset
    environ0,       \* its value when CLI.__init__ read it
    in_tmux,        \* CLI.in_tmux
    mode,           \* CLI.mode
    controller,     \* CLI.controller: the class of the controller held
    wp,             \* wait_for_prompt: arguments, locals, position, and what the
                    \* captures of the call showed
    hook,           \* bash_hook.main: the JSON read, the state of the work tree,
                    \* and what was printed
    subtask,        \* the subtask flag hooks: whether the flag file exists, the
                    \* subtasks in progress, and the latest file-size verdict
    vault           \* dotenv_vault: the files of the project directory and of
                    \* the vault, and the latest decrypt

ctlVars == <<panes, own, nextId, alive, target_pane, last, resolved, killed>>

idleVars == <<wpc, now, idle_time, check_interval, timeout, start_time,
              last_change_time, last_hash, wresult, screen, top_time,
              prev_hash, cur_hash, diff_time, all_same, overhead>>

cliVars == <<environ, environ0, in_tmux, mode, controller>>

\* the state of the hooks' flag file and of the dotenv vault
fileVars == <<subtask, vault>>

vars == <<ctlVars, idleVars, sk, cliVars, wp, hook, fileVars>>

\* ------------------------------------------------------- the tmux window
\* position of pane h in the window, 0 when it is not there
Pos(ps, h) == IF \E k \in 1..Len(ps) : ps[k] = h
              THEN CHOOSE k \in 1..Len(ps) : ps[k] = h
              ELSE 0

Live(ps, h) == Pos(ps, h) # 0

Remove(ps, h) == SelectSeq(ps, LAMBDA x : x # h)

\* split-window: the new pane follows the pane that was split
InsertAfter(ps, h, new) ==
    LET k == Pos(ps, h) IN SubSeq(ps, 1, k) \o <<new>> \o SubSeq(ps, k + 1, Len(ps))

\* what a pane shows; capture-pane of a dead pane prints nothing on stdout
Screen(ps, h) == IF Live(ps, h) THEN "screen of " \o h ELSE ""

\* a bridge command: tmux <cmd> -t <t> <keys...>
Cmd(c, t, keys) == [cmd |-> c, t |-> t, keys |-> keys]

\* the window after the kill-pane commands among cmds
RECURSIVE PanesAfter(_, _)
PanesAfter(ps, cmds) ==
    IF cmds = <<>> THEN ps
    ELSE PanesAfter(IF Head(cmds).cmd = "kill-pane" THEN Remove(ps, Head(cmds).t) ELSE ps,
                    Tail(cmds))

Issued(cmds, c, t) == \E k \in 1..Len(cmds) : cmds[k].cmd = c /\ cmds[k].t = t

IssuedAny(cmds, c) == \E k \in 1..Len(cmds) : cmds[k].cmd = c

\* ------------------------------------------------- TmuxCLIController
\* outcome of a method: the exception raised ("" for none), the value
\* returned, the bridge commands issued in order, target_pane afterwards,
\* and the status line printed (by the facade)
Out(exc, ret, cmds, tp) ==
    [exc |-> exc, ret |-> ret, cmds |-> cmds, tp |-> tp, printed |-> ""]

get_current_pane(ok, output) == IF ok THEN output ELSE None

\* the listing is parsed whatever the status
list_panes_unchecked(ok, ps) ==
    [k \in 1..Len(ps) |-> [id |-> ps[k], index |-> ToString(k - 1)]]

list_panes(ok, ps) ==
    IF ~ok THEN <<>>
    ELSE [k \in 1..Len(ps) |-> [id |-> ps[k], index |-> ToString(k - 1)]]

\* the first pane of the listing whose index is i, 0 when there is none
Match(listing, i) ==
    IF \E k \in 1..Len(listing) : ParseInt(listing[k].index) = i
    THEN CHOOSE k \in 1..Len(listing) :
            /\ ParseInt(listing[k].index) = i
            /\ \A j \in 1..(k - 1) : ParseInt(listing[j].index) # i
    ELSE 0

select_pane(pane_id, pane_index, tp, listing) ==
    IF Truthy(pane_id) THEN Out("", None, <<>>, pane_id)
    ELSE IF pane_index # NoIndex
    THEN Out("", None, <<Cmd("list-panes", "", <<>>)>>,
             IF Match(listing, pane_index) # 0
             THEN listing[Match(listing, pane_index)].id ELSE tp)
    ELSE Out("", None, <<>>, tp)

\* the split-window of create_pane; a start command is appended when given
SplitWindow(start_command) ==
    Cmd("split-window", "", IF Truthy(start_command) THEN <<start_command>> ELSE <<>>)

\* the new pane is selected although the split failed
create_pane_selecting(ok, new, start_command, tp) ==
    Out("", IF ok THEN new ELSE None, <<SplitWindow(start_command)>>, new)

create_pane(ok, new, start_command, tp) ==
    IF ok THEN Out("", new, <<SplitWindow(start_command)>>, new)
    ELSE Out("", None, <<SplitWindow(start_command)>>, tp)

\* every delay_enter counts as set
DelayAlwaysTruthy(d) == TRUE

\* delay_enter is a bool or a number: [isbool, v], v = 1 for True, 0 for False
DelayTruthy(d) == d.v # 0

\* the pause is skipped
NoDelay(d) == 0

Delay(d) == IF d.isbool THEN 1 ELSE d.v

send_keys(text, pane_id, enter, delay_enter, tp) ==
    LET target == Or(pane_id, tp) IN
    IF ~Truthy(target) THEN Out(NoTargetSpecified, None, <<>>, tp)
    ELSE IF enter /\ DelayTruthy(delay_enter)
    THEN Out("", None, <<Cmd("send-keys", target, <<text>>),
                         Cmd("sleep", "", <<ToString(Delay(delay_enter))>>),
                         Cmd("send-keys", target, <<"Enter">>)>>, tp)
    ELSE Out("", None,
             <<Cmd("send-keys", target, IF enter THEN <<text, "Enter">> ELSE <<text>>)>>, tp)

capture_pane(pane_id, lines, tp, ps) ==
    LET target == Or(pane_id, tp) IN
    IF ~Truthy(target) THEN Out(NoTargetSpecified, None, <<>>, tp)
    ELSE Out("", Screen(ps, target),
             <<Cmd("capture-pane", target,
                   IF lines # 0 THEN <<"-S", "-" \o ToString(lines)>> ELSE <<>>)>>, tp)

\* n captures of the last 50 lines, then the answer
wait_for_prompt(pane_id, n, found, tp) ==
    LET target == Or(pane_id, tp) IN
    IF ~Truthy(target) THEN Out(NoTargetSpecified, None, <<>>, tp)
    ELSE Out("", IF found THEN "True" ELSE "False",
             [k \in 1..n |-> Cmd("capture-pane", target, <<"-S", "-50">>)], tp)

\* n captures of the whole buffer, then the answer; SpecIdle has the loop
wait_for_idle(pane_id, n, idle, tp) ==
    LET target == Or(pane_id, tp) IN
    IF ~Truthy(target) THEN Out(NoTargetSpecified, None, <<>>, tp)
    ELSE Out("", IF idle THEN "True" ELSE "False",
             [k \in 1..n |-> Cmd("capture-pane", target, <<>>)], tp)

\* the reference survives the kill
KeptAfterKill(target, tp) == tp

\* target_pane is cleared only when the pane was there to be killed
ClearedOnSuccess(target, tp) == IF target = tp /\ Live(panes, target) THEN None ELSE tp

\* lines 464-465
ClearedBy(target, tp) == IF target = tp THEN None ELSE tp

\* the guard rejects whenever it cannot tell which pane is the caller's
kill_pane_failing_closed(pane_id, tp, current_pane) ==
    LET target == Or(pane_id, tp)
        query == IF pane_id # None THEN <<Cmd("display-message", "", <<>>)>> ELSE <<>>
    IN
    IF ~Truthy(target) THEN Out(NoTargetSpecified, None, <<>>, tp)
    ELSE IF pane_id # None /\ (~Truthy(current_pane) \/ target = current_pane)
    THEN Out(SelfTerminationRejected, None, query, tp)
    ELSE Out("", None, query \o <<Cmd("kill-pane", target, <<>>)>>, ClearedBy(target, tp))

\* lines 451-465
kill_pane(pane_id, tp, current_pane) ==
    LET target == Or(pane_id, tp)
        query == IF pane_id # None THEN <<Cmd("display-message", "", <<>>)>> ELSE <<>>
    IN
    IF ~Truthy(target) THEN Out(NoTargetSpecified, None, <<>>, tp)
    ELSE IF pane_id # None /\ Truthy(current_pane) /\ target = current_pane
    THEN Out(SelfTerminationRejected, None, query, tp)
    ELSE Out("", None, query \o <<Cmd("kill-pane", target, <<>>)>>, ClearedBy(target, tp))

DirectionMap == [up |-> "-U", down |-> "-D", left |-> "-L", right |-> "-R"]

resize_pane(direction, amount, pane_id, tp) ==
    LET target == Or(pane_id, tp) IN
    IF ~Truthy(target) THEN Out(NoTargetSpecified, None, <<>>, tp)
    ELSE IF direction \notin DOMAIN DirectionMap THEN Out(InvalidDirection, None, <<>>, tp)
    ELSE Out("", None,
             <<Cmd("resize-pane", target, <<DirectionMap[direction], ToString(amount)>>)>>, tp)

\* the command is sent without the check for a target
one_command_unchecked(c, keys, pane_id, tp) ==
    Out("", None, <<Cmd(c, Or(pane_id, tp), keys)>>, tp)

\* focus_pane, send_interrupt, send_escape, clear_pane: one fixed command
one_command(c, keys, pane_id, tp) ==
    LET target == Or(pane_id, tp) IN
    IF ~Truthy(target) THEN Out(NoTargetSpecified, None, <<>>, tp)
    ELSE Out("", None, <<Cmd(c, target, keys)>>, tp)

\* focusing a pane also makes it the last-selected one
focus_pane_selecting(pane_id, tp) ==
    LET target == Or(pane_id, tp) IN
    IF ~Truthy(target) THEN Out(NoTargetSpecified, None, <<>>, tp)
    ELSE Out("", None, <<Cmd("select-pane", target, <<>>)>>, target)

focus_pane(pane_id, tp) == one_command("select-pane", <<>>, pane_id, tp)

send_interrupt(pane_id, tp) == one_command("send-keys", <<"C-c">>, pane_id, tp)

send_escape(pane_id, tp) == one_command("send-keys", <<"Escape">>, pane_id, tp)

clear_pane(pane_id, tp) == one_command("send-keys", <<"C-l">>, pane_id, tp)

launch_cli(ok, new, command, tp) == create_pane(ok, new, command, tp)

\* ------------------------------------------------------------ CLI (local)
\* the facade's `if pane: select_pane(...)` prologue
\* every identifier is taken as a handle
cli_select_literal(pane, tp, listing) ==
    IF ~Truthy(pane) THEN Out("", None, <<>>, tp)
    ELSE select_pane(pane, NoIndex, tp, listing)

cli_select(pane, tp, listing) ==
    IF ~Truthy(pane) THEN Out("", None, <<>>, tp)
    ELSE IF IsDigit(pane) THEN select_pane(None, ParseInt(pane), tp, listing)
    ELSE select_pane(pane, NoIndex, tp, listing)

\* a facade method: select, then the controller method f on the selection;
\* an exception of the method propagates, otherwise the status line is printed
cli_then(s, o, line) ==
    [exc |-> o.exc, ret |-> o.ret, cmds |-> s.cmds \o o.cmds, tp |-> o.tp,
     printed |-> IF o.exc = "" THEN line ELSE ""]

cli_send(text, pane, enter, delay_enter, tp, listing) ==
    LET s == cli_select(pane, tp, listing) IN
    cli_then(s, send_keys(text, None, enter, delay_enter, s.tp), "Text sent")

cli_capture(pane, lines, tp, listing, ps) ==
    LET s == cli_select(pane, tp, listing)
        o == capture_pane(None, lines, s.tp, ps)
    IN cli_then(s, o, o.ret)

cli_interrupt(pane, tp, listing) ==
    LET s == cli_select(pane, tp, listing) IN
    cli_then(s, send_interrupt(None, s.tp), "Sent interrupt signal")

cli_escape(pane, tp, listing) ==
    LET s == cli_select(pane, tp, listing) IN
    cli_then(s, send_escape(None, s.tp), "Sent escape key")

\* kill catches the ValueError and prints its message
cli_kill(pane, tp, listing, current_pane) ==
    LET s == cli_select(pane, tp, listing)
        o == kill_pane(None, s.tp, current_pane)
    IN [exc |-> "", ret |-> None, cmds |-> s.cmds \o o.cmds, tp |-> o.tp,
        printed |-> IF o.exc = "" THEN "Pane killed" ELSE o.exc]

cli_wait_idle(pane, n, idle, tp, listing) ==
    LET s == cli_select(pane, tp, listing)
        o == wait_for_idle(None, n, idle, s.tp)
    IN [exc |-> o.exc, ret |-> o.ret, cmds |-> s.cmds \o o.cmds, tp |-> o.tp,
        printed |-> IF o.exc # "" THEN ""
                    ELSE IF o.ret = "True" THEN "Pane is idle"
                    ELSE "Timeout waiting for idle"]

\* ------------------------------------------------ RemoteTmuxController
\* the two controller classes
Local == "TmuxCLIController"

Remote == "RemoteTmuxController"

Unavailable == "Remote mode is not available. Please use tmux-cli from inside tmux."

\* every method of the stub but list_panes raises NotImplementedError
remote_stub(tp) == Out(Unavailable, None, <<>>, tp)

remote_list_panes == <<>>

\* ------------------------------------------------------ CLI, both modes
\* an empty TMUX counts as set
InTmuxWhenSet(v) == v # None

\* __init__, line 573: bool(os.environ.get('TMUX'))
InTmux(v) == Truthy(v)

\* a method whose remote branch begins with a call of a raising stub method
\* (NotImplementedError is no ValueError: kill does not catch it)
in_mode(m, local, tp) == IF m = "local" THEN local ELSE remote_stub(tp)

\* list_panes has no branch on the mode: the controller held answers
cli_list_panes(c, ok, ps, tp) ==
    LET listing == IF c = Local THEN list_panes(ok, ps) ELSE remote_list_panes IN
    [exc |-> "", ret |-> None,
     cmds |-> IF c = Local THEN <<Cmd("list-panes", "", <<>>)>> ELSE <<>>,
     tp |-> tp, printed |-> IF listing = <<>> THEN "[]" ELSE "[...]"]

cli_launch(m, ok, new, command, tp) ==
    LET o == launch_cli(ok, new, command, tp) IN
    in_mode(m, [o EXCEPT !.printed = "Launched in pane: " \o o.ret], tp)

\* attach also drops the selection
cli_attach_deselecting(m, tp) ==
    in_mode(m, [Out("", None, <<>>, None) EXCEPT
                   !.printed = "Attach is only available in remote mode (when outside tmux)"],
            tp)

cli_attach(m, tp) ==
    in_mode(m, [Out("", None, <<>>, tp) EXCEPT
                   !.printed = "Attach is only available in remote mode (when outside tmux)"],
            tp)

cli_cleanup(m, tp) ==
    in_mode(m, [Out("", None, <<>>, tp) EXCEPT
                   !.printed = "Cleanup is only available in remote mode (when outside tmux)"],
            tp)

cli_list_windows(m, tp) ==
    in_mode(m, [Out("", None, <<>>, tp) EXCEPT
                   !.printed = "List_windows is only available in remote mode. Use list_panes instead."],
            tp)

\* ----------------------------------------------------------- the bridge
\* the exit status _run_tmux_command gets for command c in window ps: tmux
\* finds no pane for a -t that names none; a command without -t fares as the
\* bridge does (ok; the pane id query as cur, the answer it gave, tells)
Code(ps, c, ok, cur) ==
    IF c.cmd = "sleep" THEN 0
    ELSE IF c.t # "" THEN (IF Live(ps, c.t) THEN 0 ELSE 1)
    ELSE IF c.cmd = "display-message" THEN (IF cur # None THEN 0 ELSE 1)
    ELSE IF ok THEN 0 ELSE 1

\* the statuses of cmds, issued in this order
Codes(ps, cmds, ok, cur) ==
    [k \in 1..Len(cmds) |->
        Code(PanesAfter(ps, SubSeq(cmds, 1, k - 1)), cmds[k], ok, cur)]

\* no send_keys call is being followed
NoSend == [pc |-> "off"]

\* no wait_for_prompt call is being followed
NoPrompt == [pc |-> "off"]

\* the Bash hook is not running
NoHook == [pc |-> "off"]

\* the flag hooks and the vault are not in use
FilesOff == subtask = [pc |-> "off"] /\ vault = [pc |-> "off"]

\* a value tmux gives TMUX inside a session
TmuxSocket == "/tmp/tmux-1000/default,4242,0"

\* a facade constructed inside tmux
CliLocal ==
    /\ environ = TmuxSocket
    /\ environ0 = TmuxSocket
    /\ in_tmux = TRUE
    /\ mode = "local"
    /\ controller = Local

\* --------------------------------------------------------------- inputs
PaneIdArgs == {None, ""} \cup Handles

PaneArgs == {None} \cup Handles \cup Digits

IndexArgs == {NoIndex} \cup (0..MaxIds)

DelayArgs == {[isbool |-> TRUE, v |-> 1], [isbool |-> TRUE, v |-> 0],
              [isbool |-> FALSE, v |-> 0], [isbool |-> FALSE, v |-> 2]}

LinesArgs == {0, 10}

DirectionArgs == {"up", "down", "left", "right", "sideways"}

CommandArgs == {None, "claude"}

\* what `display-message -p '#{pane_id}'` prints when its status is 0: the
\* caller's pane, or nothing
PaneQueryOutputs == {own, ""}

\* ---------------------------------------------------------------- steps
NoResolution == [idx |-> NoIndex, removed |-> FALSE]

\* the index select_pane resolved to a pane, NoIndex when it resolved none
Resolution(pane_id, pane_index, listing) ==
    IF ~Truthy(pane_id) /\ pane_index # NoIndex /\ Match(listing, pane_index) # 0
    THEN pane_index ELSE NoIndex

CliResolution(pane, listing) ==
    IF Truthy(pane) /\ IsDigit(pane)
    THEN Resolution(None, ParseInt(pane), listing) ELSE NoIndex

\* resolved after a call that leaves target_pane = tp and resolved index by
ResolvedAfter(tp, by) ==
    IF tp = None THEN NoResolution
    ELSE IF by # NoIndex THEN [idx |-> by, removed |-> FALSE]
    ELSE IF tp = target_pane THEN resolved
    ELSE NoResolution

\* tp0, panes0, prev: target_pane, the window and the last index resolution
\* when the call was made; cur: what get_current_pane reports during the call;
\* codes: the exit status of each of cmds
Rec(op, pane_id, index, o, cur, ok) ==
    [op |-> op, pane_id |-> pane_id, index |-> index, exc |-> o.exc, ret |-> o.ret,
     cmds |-> o.cmds, printed |-> o.printed, tp0 |-> target_pane, panes0 |-> panes,
     prev |-> resolved, cur |-> cur, codes |-> Codes(panes, o.cmds, ok, cur)]

NoCall ==
    [op |-> "", pane_id |-> None, index |-> NoIndex, exc |-> "", ret |-> None,
     cmds |-> <<>>, printed |-> "", tp0 |-> None, panes0 |-> <<>>, prev |-> NoResolution,
     cur |-> None, codes |-> <<>>]

Ready == alive /\ last = NoCall /\ controller # None

\* the panes that the kill-pane commands among cmds close in window ps
Closed(ps, cmds) == {h \in Handles : Issued(cmds, "kill-pane", h) /\ Live(ps, h)}

\* a call made by the running caller, with outcome o; the bridge answers the
\* listing or the split with status ok and the pane id query with cur
CallOk(op, pane_id, index, o, by, cur, ok) ==
    /\ Ready
    /\ target_pane' = o.tp
    /\ panes' = PanesAfter(panes, o.cmds)
    /\ alive' = ~(Issued(o.cmds, "kill-pane", own) /\ Live(panes, own))
    /\ last' = Rec(op, pane_id, index, o, cur, ok)
    /\ resolved' = ResolvedAfter(o.tp, by)
    /\ killed' = killed \cup Closed(panes, o.cmds)
    /\ UNCHANGED <<own, nextId, idleVars, sk, cliVars, hook, fileVars, wp>>

CallWith(op, pane_id, index, o, by, cur) == CallOk(op, pane_id, index, o, by, cur, TRUE)

Call(op, pane_id, index, o, by) == CallWith(op, pane_id, index, o, by, None)

ListPanes(ok) ==
    CallOk("list_panes", None, NoIndex,
           Out("", IF list_panes(ok, panes) = <<>> THEN "[]" ELSE "[...]",
               <<Cmd("list-panes", "", <<>>)>>, target_pane), NoIndex, None, ok)

\* create_pane or launch_cli with outcome o: on status ok tmux splits the
\* caller's pane and prints the id of the new pane
Split(op, o, ok) ==
    /\ Ready
    /\ ok => nextId < MaxIds
    /\ target_pane' = o.tp
    /\ panes' = IF ok THEN InsertAfter(panes, own, Handle(nextId)) ELSE panes
    /\ nextId' = IF ok THEN nextId + 1 ELSE nextId
    /\ last' = Rec(op, None, NoIndex, o, None, ok)
    /\ resolved' = ResolvedAfter(o.tp, NoIndex)
    /\ UNCHANGED <<own, alive, killed, idleVars, sk, cliVars, hook, fileVars, wp>>

CreatePane(ok, start_command) ==
    Split("create_pane", create_pane(ok, Handle(nextId), start_command, target_pane), ok)

LaunchCli(ok) ==
    Split("launch_cli", launch_cli(ok, Handle(nextId), "claude", target_pane), ok)

SelectPane(pane_id, pane_index, ok) ==
    CallOk("select_pane", pane_id, pane_index,
           select_pane(pane_id, pane_index, target_pane, list_panes(ok, panes)),
           Resolution(pane_id, pane_index, list_panes(ok, panes)), None, ok)

SendKeys(pane_id, enter, delay_enter) ==
    Call("send_keys", pane_id, NoIndex,
         send_keys("text", pane_id, enter, delay_enter, target_pane), NoIndex)

CapturePane(pane_id, lines) ==
    Call("capture_pane", pane_id, NoIndex,
         capture_pane(pane_id, lines, target_pane, panes), NoIndex)

WaitForPrompt(pane_id, n, found) ==
    Call("wait_for_prompt", pane_id, NoIndex,
         wait_for_prompt(pane_id, n, found, target_pane), NoIndex)

WaitForIdle(pane_id, n, idle) ==
    Call("wait_for_idle", pane_id, NoIndex,
         wait_for_idle(pane_id, n, idle, target_pane), NoIndex)

KillPane(pane_id, ok, output) ==
    CallWith("kill_pane", pane_id, NoIndex,
             kill_pane(pane_id, target_pane, get_current_pane(ok, output)), NoIndex,
             get_current_pane(ok, output))

ResizePane(direction, pane_id) ==
    Call("resize_pane", pane_id, NoIndex,
         resize_pane(direction, 5, pane_id, target_pane), NoIndex)

FocusPane(pane_id) ==
    Call("focus_pane", pane_id, NoIndex, focus_pane(pane_id, target_pane), NoIndex)

SendInterrupt(pane_id) ==
    Call("send_interrupt", pane_id, NoIndex, send_interrupt(pane_id, target_pane), NoIndex)

SendEscape(pane_id) ==
    Call("send_escape", pane_id, NoIndex, send_escape(pane_id, target_pane), NoIndex)

ClearPane(pane_id) ==
    Call("clear_pane", pane_id, NoIndex, clear_pane(pane_id, target_pane), NoIndex)

\* the index a facade call resolves: only the local branch resolves one
CliBy(pane, listing) == IF mode = "local" THEN CliResolution(pane, listing) ELSE NoIndex

CliSend(pane, enter, delay_enter, ok) ==
    CallOk("CLI.send", pane, NoIndex,
           in_mode(mode, cli_send("text", pane, enter, delay_enter, target_pane, list_panes(ok, panes)),
                   target_pane),
           CliBy(pane, list_panes(ok, panes)), None, ok)

CliCapture(pane, lines, ok) ==
    CallOk("CLI.capture", pane, NoIndex,
           in_mode(mode, cli_capture(pane, lines, target_pane, list_panes(ok, panes), panes),
                   target_pane),
           CliBy(pane, list_panes(ok, panes)), None, ok)

CliInterrupt(pane, ok) ==
    CallOk("CLI.interrupt", pane, NoIndex,
           in_mode(mode, cli_interrupt(pane, target_pane, list_panes(ok, panes)),
                   target_pane),
           CliBy(pane, list_panes(ok, panes)), None, ok)

CliEscape(pane, ok) ==
    CallOk("CLI.escape", pane, NoIndex,
           in_mode(mode, cli_escape(pane, target_pane, list_panes(ok, panes)),
                   target_pane),
           CliBy(pane, list_panes(ok, panes)), None, ok)

CliKill(pane, ok, cur_ok, output) ==
    CallOk("CLI.kill", pane, NoIndex,
           in_mode(mode, cli_kill(pane, target_pane, list_panes(ok, panes),
                                  get_current_pane(cur_ok, output)),
                   target_pane),
           CliBy(pane, list_panes(ok, panes)),
           get_current_pane(cur_ok, output), ok)

CliWaitIdle(pane, n, idle, ok) ==
    CallOk("CLI.wait_idle", pane, NoIndex,
           in_mode(mode, cli_wait_idle(pane, n, idle, target_pane, list_panes(ok, panes)),
                   target_pane),
           CliBy(pane, list_panes(ok, panes)), None, ok)

CliListPanes(ok) ==
    CallOk("CLI.list_panes", None, NoIndex,
           cli_list_panes(controller, ok, panes, target_pane), NoIndex, None, ok)

\* the remote branch makes no split, whatever tmux would answer
CliLaunch(ok) ==
    IF mode = "local"
    THEN Split("CLI.launch", cli_launch(mode, ok, Handle(nextId), "claude", target_pane), ok)
    ELSE ok /\ Call("CLI.launch", None, NoIndex,
                    cli_launch(mode, ok, Handle(nextId), "claude", target_pane), NoIndex)

CliAttach == Call("CLI.attach", None, NoIndex, cli_attach(mode, target_pane), NoIndex)

CliCleanup == Call("CLI.cleanup", None, NoIndex, cli_cleanup(mode, target_pane), NoIndex)

CliListWindows ==
    Call("CLI.list_windows", None, NoIndex, cli_list_windows(mode, target_pane), NoIndex)

\* a pane other than the caller's goes away on its own: its command exits
PaneExits(h) ==
    /\ last = NoCall
    /\ Live(panes, h) /\ h # own
    /\ panes' = Remove(panes, h)
    /\ resolved' = [resolved EXCEPT !.removed = (resolved.idx # NoIndex)]
    /\ UNCHANGED <<own, nextId, alive, target_pane, last, killed, idleVars, sk, cliVars, hook, fileVars, wp>>

\* the caller takes the outcome; the controller is ready for the next call
Returned ==
    /\ last # NoCall
    /\ last' = NoCall
    /\ UNCHANGED <<panes, own, nextId, alive, target_pane, resolved, killed, idleVars, sk, cliVars, hook, fileVars, wp>>

IdleOff ==
    /\ wpc = "off" /\ now = 0 /\ idle_time = 0 /\ check_interval = 1
    /\ timeout = NoTimeout /\ start_time = 0 /\ last_change_time = 0
    /\ last_hash = "" /\ wresult = None /\ screen = "" /\ top_time = 0
    /\ prev_hash = "" /\ cur_hash = "" /\ diff_time = 0 /\ all_same = TRUE
    /\ overhead = 0

\* the statuses list-panes may return when identifier s is resolved: the
\* bridge is only asked when s is a pane index
Listed(s) == IF IsDigit(s) THEN BOOLEAN ELSE {TRUE}

\* the windows the controller may be started in
InitWindows == {<<Handle(0)>>, <<Handle(0), Handle(1)>>}

Init ==
    /\ panes \in InitWindows
    /\ own \in {panes[k] : k \in 1..Len(panes)}
    /\ nextId = Len(panes)
    /\ alive = TRUE
    /\ target_pane = None
    /\ resolved = NoResolution
    /\ killed = {}
    /\ last = NoCall
    /\ IdleOff
    /\ sk = NoSend
    /\ CliLocal
    /\ wp = NoPrompt
    /\ hook = NoHook
    /\ FilesOff

Next ==
    \/ \E ok \in BOOLEAN : ListPanes(ok)
    \/ \E ok \in BOOLEAN, c \in CommandArgs : CreatePane(ok, c)
    \/ \E ok \in BOOLEAN : LaunchCli(ok)
    \/ \E p \in PaneIdArgs, i \in IndexArgs :
          \E ok \in Listed(IF Truthy(p) THEN p ELSE ToString(i)) : SelectPane(p, i, ok)
    \/ \E p \in PaneIdArgs, e \in BOOLEAN, d \in DelayArgs : SendKeys(p, e, d)
    \/ \E p \in PaneIdArgs, l \in LinesArgs : CapturePane(p, l)
    \/ \E p \in PaneIdArgs, n \in 0..2, f \in BOOLEAN : WaitForPrompt(p, n, f)
    \/ \E p \in PaneIdArgs, n \in 1..2, f \in BOOLEAN : WaitForIdle(p, n, f)
    \/ \E p \in PaneIdArgs, ok \in BOOLEAN, out \in PaneQueryOutputs : KillPane(p, ok, out)
    \/ \E d \in DirectionArgs, p \in PaneIdArgs : ResizePane(d, p)
    \/ \E p \in PaneIdArgs : FocusPane(p)
    \/ \E p \in PaneIdArgs : SendInterrupt(p)
    \/ \E p \in PaneIdArgs : SendEscape(p)
    \/ \E p \in PaneIdArgs : ClearPane(p)
    \/ \E p \in PaneArgs, e \in BOOLEAN, d \in DelayArgs :
          \E ok \in Listed(p) : CliSend(p, e, d, ok)
    \/ \E p \in PaneArgs, l \in LinesArgs : \E ok \in Listed(p) : CliCapture(p, l, ok)
    \/ \E p \in PaneArgs : \E ok \in Listed(p) : CliInterrupt(p, ok)
    \/ \E p \in PaneArgs : \E ok \in Listed(p) : CliEscape(p, ok)
    \/ \E p \in PaneArgs, c \in BOOLEAN, out \in PaneQueryOutputs : \E ok \in Listed(p) : CliKill(p, ok, c, out)
    \/ \E p \in PaneArgs, n \in 1..2, f \in BOOLEAN :
          \E ok \in Listed(p) : CliWaitIdle(p, n, f, ok)
    \/ \E ok \in BOOLEAN : CliListPanes(ok)
    \/ \E ok \in BOOLEAN : CliLaunch(ok)
    \/ CliAttach
    \/ CliCleanup
    \/ CliListWindows
    \/ \E h \in Handles : PaneExits(h)
    \/ Returned

Spec == Init /\ [][Next]_vars

\* ------------------------------------------- the facade, from construction
\* what os.environ.get('TMUX') may give
EnvValues == {None, "", TmuxSocket}

InitCli ==
    /\ panes \in InitWindows
    /\ own \in {panes[k] : k \in 1..Len(panes)}
    /\ nextId = Len(panes)
    /\ alive = TRUE
    /\ target_pane = None
    /\ resolved = NoResolution
    /\ killed = {}
    /\ last = NoCall
    /\ IdleOff
    /\ sk = NoSend
    /\ wp = NoPrompt
    /\ hook = NoHook
    /\ FilesOff
    /\ environ \in EnvValues
    /\ environ0 = None
    /\ in_tmux = FALSE
    /\ mode = None
    /\ controller = None

\* CLI.__init__, lines 573-584; TmuxCLIController() starts with no target_pane
Construct ==
    /\ controller = None
    /\ environ0' = environ
    /\ in_tmux' = InTmux(environ)
    /\ mode' = IF InTmux(environ) THEN "local" ELSE "remote"
    /\ controller' = IF InTmux(environ) THEN Local ELSE Remote
    /\ UNCHANGED <<ctlVars, idleVars, sk, wp, hook, fileVars, environ>>

\* between calls the process environment changes: TMUX is set, emptied, unset
EnvChange(v) ==
    /\ last = NoCall
    /\ v # environ
    /\ environ' = v
    /\ UNCHANGED <<ctlVars, idleVars, sk, wp, hook, fileVars, environ0, in_tmux, mode, controller>>

NextCli ==
    \/ Construct
    \/ \E v \in EnvValues : EnvChange(v)
    \/ \E p \in PaneArgs, e \in BOOLEAN :
          \E ok \in Listed(p) : CliSend(p, e, [isbool |-> TRUE, v |-> 1], ok)
    \/ \E p \in PaneArgs, l \in LinesArgs : \E ok \in Listed(p) : CliCapture(p, l, ok)
    \/ \E p \in PaneArgs : \E ok \in Listed(p) : CliInterrupt(p, ok)
    \/ \E p \in PaneArgs : \E ok \in Listed(p) : CliEscape(p, ok)
    \/ \E p \in PaneArgs, c \in BOOLEAN, out \in PaneQueryOutputs : \E ok \in Listed(p) : CliKill(p, ok, c, out)
    \/ \E p \in PaneArgs, f \in BOOLEAN :
          \E ok \in Listed(p) : CliWaitIdle(p, 1, f, ok)
    \/ \E ok \in BOOLEAN : CliListPanes(ok)
    \/ \E ok \in BOOLEAN : CliLaunch(ok)
    \/ CliAttach
    \/ CliCleanup
    \/ CliListWindows
    \/ \E h \in Handles : PaneExits(h)
    \/ Returned

SpecCli == InitCli /\ [][NextCli]_vars

\* ------------------------------------------------ wait_for_idle, the loop
Contents == {"a", "b"}

\* a fingerprint that may be the empty string
Md5Empty(c) == ""

\* hashlib.md5(content.encode()).hexdigest(): never the empty string, and
\* distinct for the contents at hand
Md5(c) == "md5(" \o c \o ")"

\* no deadline is ever seen exceeded
NeverTimedOut(t, start, to) == FALSE

\* a timeout of 0 is a deadline as any other
TimedOutWhenSupplied(t, start, to) == to # NoTimeout /\ t - start > to

\* line 430: `timeout and (time.time() - start_time > timeout)`
TimedOut(t, start, to) == to # NoTimeout /\ to # 0 /\ t - start > to

\* every capture counts as a change
ChangedAlways(h, last_h) == TRUE

\* line 436
Changed(h, last_h) == h # last_h

\* the quiet period is measured from the start of the call
IdleReachedSinceStart(t, lct, idle) == t - start_time >= idle

\* line 439
IdleReached(t, lct, idle) == t - lct >= idle

\* the capture of a pane that is gone shows what the pane showed
ContentKept(ps, target, shown) == shown

\* lines 370-376, 433: what capture_pane(target) returns; tmux prints nothing
\* on stdout for a pane that does not exist
Content(ps, target, shown) == IF Live(ps, target) THEN shown ELSE ""

InitIdle ==
    /\ panes \in {<<Handle(0), Handle(1)>>, <<Handle(0)>>}
    /\ own = Handle(0)
    /\ nextId = 2
    /\ alive = TRUE
    /\ target_pane = Handle(1)
    /\ resolved = NoResolution
    /\ killed = {}
    /\ last = NoCall
    /\ sk = NoSend
    /\ CliLocal
    /\ wp = NoPrompt
    /\ hook = NoHook
    /\ FilesOff
    /\ wpc = "call"
    /\ now \in 0..1
    /\ idle_time \in 0..MaxIdle
    /\ check_interval \in 1..MaxInterval
    /\ timeout \in {NoTimeout} \cup (0..MaxTimeout)
    /\ screen \in Contents
    /\ start_time = 0 /\ last_change_time = 0 /\ last_hash = ""
    /\ wresult = None /\ top_time = 0 /\ prev_hash = "" /\ cur_hash = ""
    /\ diff_time = 0 /\ all_same = TRUE /\ overhead = 0

\* lines 425-427
Begin ==
    /\ wpc = "call"
    /\ start_time' = now
    /\ last_change_time' = now
    /\ last_hash' = ""
    /\ top_time' = now
    /\ diff_time' = now
    /\ wpc' = "top"
    /\ UNCHANGED <<ctlVars, sk, cliVars, hook, fileVars, wp, now, idle_time, check_interval, timeout, wresult, screen,
                   prev_hash, cur_hash, all_same, overhead>>

\* lines 430-431: the deadline is seen exceeded
TickTimeout ==
    /\ wpc = "top"
    /\ TimedOut(now, start_time, timeout)
    /\ top_time' = now
    /\ wresult' = "False"
    /\ wpc' = "done"
    /\ UNCHANGED <<ctlVars, sk, cliVars, hook, fileVars, wp, now, idle_time, check_interval, timeout, start_time,
                   last_change_time, last_hash, screen, prev_hash, cur_hash,
                   diff_time, all_same, overhead>>

\* lines 430-434: the deadline check passes and the pane is captured, which
\* takes lat; what is recorded about the capture, whatever the code does next
Capture(lat) ==
    /\ wpc = "top"
    /\ ~TimedOut(now, start_time, timeout)
    /\ now + lat <= MaxTime
    /\ top_time' = now
    /\ now' = now + lat
    /\ overhead' = overhead + lat
    /\ cur_hash' = Md5(Content(panes, target_pane, screen))
    /\ prev_hash' = cur_hash
    /\ diff_time' = IF Md5(Content(panes, target_pane, screen)) # cur_hash
                     THEN now + lat ELSE diff_time
    /\ all_same' = (all_same /\ (cur_hash = ""
                                  \/ cur_hash = Md5(Content(panes, target_pane, screen))))
    /\ UNCHANGED <<ctlVars, sk, cliVars, hook, fileVars, wp, idle_time, check_interval, timeout, start_time, screen>>

\* lines 436-438
TickChanged(lat) ==
    /\ Capture(lat)
    /\ Changed(Md5(Content(panes, target_pane, screen)), last_hash)
    /\ last_hash' = Md5(Content(panes, target_pane, screen))
    /\ last_change_time' = now + lat
    /\ wpc' = "sleep"
    /\ UNCHANGED wresult

\* lines 439-440
TickIdle(lat) ==
    /\ Capture(lat)
    /\ ~Changed(Md5(Content(panes, target_pane, screen)), last_hash)
    /\ IdleReached(now + lat, last_change_time, idle_time)
    /\ wresult' = "True"
    /\ wpc' = "done"
    /\ UNCHANGED <<last_hash, last_change_time>>

\* line 439, not yet idle
TickQuiet(lat) ==
    /\ Capture(lat)
    /\ ~Changed(Md5(Content(panes, target_pane, screen)), last_hash)
    /\ ~IdleReached(now + lat, last_change_time, idle_time)
    /\ wpc' = "sleep"
    /\ UNCHANGED <<last_hash, last_change_time, wresult>>

\* line 442
Sleep ==
    /\ wpc = "sleep"
    /\ now + check_interval <= MaxTime
    /\ now' = now + check_interval
    /\ wpc' = "top"
    /\ UNCHANGED <<ctlVars, sk, cliVars, hook, fileVars, wp, idle_time, check_interval, timeout, start_time,
                   last_change_time, last_hash, wresult, screen, top_time,
                   prev_hash, cur_hash, diff_time, all_same, overhead>>

\* the program in the pane writes while the loop sleeps
ScreenChange(c) ==
    /\ wpc = "sleep"
    /\ Live(panes, target_pane)
    /\ c # screen
    /\ screen' = c
    /\ UNCHANGED <<ctlVars, sk, cliVars, hook, fileVars, wp, wpc, now, idle_time, check_interval, timeout, start_time,
                   last_change_time, last_hash, wresult, top_time, prev_hash,
                   cur_hash, diff_time, all_same, overhead>>

\* the steps of the method itself
IdleStep ==
    \/ Begin
    \/ TickTimeout
    \/ \E lat \in 0..MaxLatency : TickChanged(lat)
    \/ \E lat \in 0..MaxLatency : TickIdle(lat)
    \/ \E lat \in 0..MaxLatency : TickQuiet(lat)
    \/ Sleep

NextIdle ==
    \/ IdleStep
    \/ \E c \in Contents : ScreenChange(c)

SpecIdle == InitIdle /\ [][NextIdle]_vars

\* the method runs on the caller's thread: whenever it can take a step it does
SpecIdleFair == SpecIdle /\ WF_vars(IdleStep)

\* ------------------------------------------------ send_keys, call by call
InitSend ==
    /\ panes = <<Handle(0), Handle(1)>>
    /\ own = Handle(0)
    /\ nextId = 2
    /\ alive = TRUE
    /\ target_pane \in {None, Handle(1)}
    /\ resolved = NoResolution
    /\ killed = {}
    /\ last = NoCall
    /\ IdleOff
    /\ CliLocal
    /\ wp = NoPrompt
    /\ hook = NoHook
    /\ FilesOff
    /\ sk \in [pc : {"call"}, pane_id : PaneIdArgs, enter : BOOLEAN,
               delay_enter : DelayArgs, exc : {""}, todo : {<<>>}, log : {<<>>},
               slept : {0}]

\* lines 327-331: the target is worked out; todo is what the method goes on
\* to do, in order
SendBegin ==
    /\ sk.pc = "call"
    /\ LET o == send_keys("text", sk.pane_id, sk.enter, sk.delay_enter, target_pane) IN
        /\ sk' = [sk EXCEPT !.pc = IF o.exc = "" THEN "run" ELSE "done",
                            !.exc = o.exc, !.todo = o.cmds]
        /\ target_pane' = o.tp
    /\ UNCHANGED <<panes, own, nextId, alive, last, resolved, killed, idleVars, cliVars, hook, fileVars, wp>>

\* lines 334, 347, 353: a bridge call, which returns after lat; its status
\* is dropped
SendBridge(lat) ==
    /\ sk.pc = "run" /\ sk.todo # <<>> /\ Head(sk.todo).cmd # "sleep"
    /\ sk' = [sk EXCEPT !.todo = Tail(@),
                        !.log = Append(@, [t |-> Head(sk.todo).t,
                                           keys |-> Head(sk.todo).keys,
                                           from |-> now, to |-> now + lat])]
    /\ now' = now + lat
    /\ UNCHANGED <<ctlVars, cliVars, hook, fileVars, wp, wpc, idle_time, check_interval, timeout, start_time,
                   last_change_time, last_hash, wresult, screen, top_time,
                   prev_hash, cur_hash, diff_time, all_same, overhead>>

\* line 343: time.sleep(delay) returns no sooner than after delay
SendSleep(over) ==
    /\ sk.pc = "run" /\ sk.todo # <<>> /\ Head(sk.todo).cmd = "sleep"
    /\ sk' = [sk EXCEPT !.todo = Tail(@),
                        !.slept = @ + Delay(sk.delay_enter) + over]
    /\ now' = now + Delay(sk.delay_enter) + over
    /\ UNCHANGED <<ctlVars, cliVars, hook, fileVars, wp, wpc, idle_time, check_interval, timeout, start_time,
                   last_change_time, last_hash, wresult, screen, top_time,
                   prev_hash, cur_hash, diff_time, all_same, overhead>>

SendReturn ==
    /\ sk.pc = "run" /\ sk.todo = <<>>
    /\ sk' = [sk EXCEPT !.pc = "done"]
    /\ UNCHANGED <<ctlVars, idleVars, cliVars, hook, fileVars, wp>>

NextSend ==
    \/ SendBegin
    \/ \E lat \in 0..MaxLatency : SendBridge(lat)
    \/ \E over \in 0..MaxOversleep : SendSleep(over)
    \/ SendReturn

SpecSend == InitSend /\ [][NextSend]_vars

\* ------------------------------------------------ wait_for_prompt, the loop
\* the lines a pane may show, and the pattern waited for
Lines == {">>>", "..."}

Prompt == ">>>"

\* the pane keeps this many lines; older ones are gone
MaxLines == 3

\* the model's stand-in for the 50 of line 400: the capture returns this many
\* lines from the bottom of the buffer
Window == 2

\* lines 370-376 with lines=50: `capture-pane -S -50`, the bottom of the buffer
CaptureLines(buffer, lines) ==
    IF Len(buffer) <= lines THEN buffer
    ELSE SubSeq(buffer, Len(buffer) - lines + 1, Len(buffer))

\* line 401: pattern.search(content)
Search(pattern, content) == \E k \in 1..Len(content) : content[k] = pattern

\* line 399, as `<=`
WithinTimeoutInclusive(t, start, to) == t - start <= to

\* line 399: `time.time() - start_time < timeout`
WithinTimeout(t, start, to) == t - start < to

\* the state of wait_for_idle, which wait_for_prompt leaves alone
idleLocals == <<wpc, idle_time, check_interval, timeout, start_time,
                last_change_time, last_hash, wresult, screen, top_time,
                prev_hash, cur_hash, diff_time, all_same, overhead>>

InitPrompt ==
    /\ panes = <<Handle(0), Handle(1)>>
    /\ own = Handle(0)
    /\ nextId = 2
    /\ alive = TRUE
    /\ target_pane \in {None, Handle(1)}
    /\ resolved = NoResolution
    /\ killed = {}
    /\ last = NoCall
    /\ IdleOff
    /\ sk = NoSend
    /\ CliLocal
    /\ wp \in [pc : {"call"}, timeout : 0..MaxTimeout, check_interval : 1..MaxInterval,
               start_time : {0}, exc : {""}, ret : {None},
               buffer : {<<>>, <<"...">>, <<">>>", "...">>},
               captures : {0}, matched : {FALSE}, content : {<<>>}]
    /\ hook = NoHook
    /\ FilesOff

\* lines 392-397
PromptBegin ==
    /\ wp.pc = "call"
    /\ wp' = IF ~Truthy(Or(None, target_pane))
             THEN [wp EXCEPT !.pc = "done", !.exc = NoTargetSpecified]
             ELSE [wp EXCEPT !.pc = "top", !.start_time = now]
    /\ UNCHANGED <<ctlVars, idleVars, sk, cliVars, hook, fileVars>>

\* lines 399, 405: the loop condition fails
PromptTimeout ==
    /\ wp.pc = "top"
    /\ ~WithinTimeout(now, wp.start_time, wp.timeout)
    /\ wp' = [wp EXCEPT !.pc = "done", !.ret = "False"]
    /\ UNCHANGED <<ctlVars, idleVars, sk, cliVars, hook, fileVars>>

\* lines 399-400: the loop condition holds and the pane is captured, which
\* takes lat
PromptCapture(lat) ==
    /\ wp.pc = "top"
    /\ WithinTimeout(now, wp.start_time, wp.timeout)
    /\ now' = now + lat
    /\ UNCHANGED <<ctlVars, idleLocals, sk, cliVars, hook, fileVars>>

\* lines 401-402
PromptFound(lat) ==
    /\ PromptCapture(lat)
    /\ LET content == CaptureLines(wp.buffer, Window) IN
        /\ Search(Prompt, content)
        /\ wp' = [wp EXCEPT !.pc = "done", !.ret = "True", !.content = content,
                            !.captures = @ + 1, !.matched = TRUE]

\* line 401, no match
PromptMissed(lat) ==
    /\ PromptCapture(lat)
    /\ LET content == CaptureLines(wp.buffer, Window) IN
        /\ ~Search(Prompt, content)
        /\ wp' = [wp EXCEPT !.pc = "sleep", !.content = content,
                            !.captures = @ + 1]

\* line 403
PromptSleep(over) ==
    /\ wp.pc = "sleep"
    /\ now' = now + wp.check_interval + over
    /\ wp' = [wp EXCEPT !.pc = "top"]
    /\ UNCHANGED <<ctlVars, idleLocals, sk, cliVars, hook, fileVars>>

\* the program in the pane writes a line while the loop sleeps
PromptOutput(l) ==
    /\ wp.pc = "sleep"
    /\ wp' = [wp EXCEPT !.buffer = IF Len(@) < MaxLines THEN Append(@, l)
                                   ELSE Append(Tail(@), l)]
    /\ UNCHANGED <<ctlVars, idleVars, sk, cliVars, hook, fileVars>>

PromptStep ==
    \/ PromptBegin
    \/ PromptTimeout
    \/ \E lat \in 0..MaxLatency : PromptFound(lat)
    \/ \E lat \in 0..MaxLatency : PromptMissed(lat)
    \/ \E over \in 0..MaxOversleep : PromptSleep(over)

NextPrompt ==
    \/ PromptStep
    \/ \E l \in Lines : PromptOutput(l)

\* the method runs on the caller's thread: whenever it can take a step it does
SpecPrompt == InitPrompt /\ [][NextPrompt]_vars /\ WF_vars(PromptStep)

\* ------------------------------------------------ hooks/bash_hook.py
\* A command is the sequence of its whitespace-separated words, which is what
\* `' '.join(command.strip().split())` keeps of it.
SimpleCommands ==
    {<<"ls">>, <<"rm", "f.txt">>, <<"/bin/rm", "f.txt">>, <<"rmdir", "d">>,
     <<"git", "status">>,
     <<"git", "add", ".">>, <<"git", "add", "-A">>, <<"git", "add", "-u">>,
     <<"git", "add", "f.txt">>,
     <<"git", "commit", "-a">>, <<"git", "commit", "-am", "msg">>,
     <<"git", "checkout", "main">>, <<"git", "checkout", "-b", "new">>,
     <<"git", "checkout", ".">>, <<"git", "checkout", "-f", "main">>,
     <<"git", "checkout", "main", "--", "f.txt">>,
     <<"git", "checkout", "main", "--", ".">>}

\* one command, or two joined by a shell separator
Commands ==
    SimpleCommands \cup
    {a \o <<";">> \o b : a \in SimpleCommands, b \in SimpleCommands}

\* the words [;&|] ends
Separators == {";", "&&", "|"}

\* the words `(/\S*/)?rm\b` matches from their first character
RmWords == {"rm", "/bin/rm"}

\* the words `-[a-zA-Z]*[Aa][a-zA-Z]*|--all|\.|\*` matches, case ignored,
\* from their first character
AddAllWords == {"-A", "-a", "-am", "."}

\* the words `-[a-zA-Z]*a[a-zA-Z]*` finds a match in
AFlagWords == {"-a", "-am"}

\* the words `-[a-zA-Z]*m[a-zA-Z]*` finds a match in
MFlagWords == {"-am"}

\* the words containing "-b", "--help" or "-h"
SafeCheckoutWords == {"-b"}

\* the words starting with "."
DotWords == {"."}

Blocked(reason) == [should_block |-> TRUE, reason |-> reason]

Allowed == [should_block |-> FALSE, reason |-> None]

\* rm_block_hook.py lines 10-29
check_rm_command(command) ==
    IF \/ (Len(command) > 1 /\ command[1] = "rm")
       \/ command = <<"rm">>
       \/ \E k \in 1..Len(command) :
            /\ command[k] \in RmWords
            /\ (k = 1 \/ command[k - 1] \in Separators)
    THEN Blocked("Instead of using 'rm': ...")
    ELSE Allowed

\* git_add_block_hook.py lines 10-44
check_git_add_command(command) ==
    IF /\ Len(command) >= 3
       /\ command[1] = "git" /\ command[2] = "add"
       /\ command[3] \in AddAllWords
    THEN Blocked("DO NOT use 'git add -A', ...")
    ELSE IF /\ Len(command) >= 3
            /\ command[1] = "git" /\ command[2] = "commit"
            /\ \E k \in 1..Len(command) : command[k] \in AFlagWords
            /\ ~\E k \in 1..Len(command) : command[k] \in MFlagWords
    THEN Blocked("Avoid 'git commit -a' without a message flag. ...")
    ELSE Allowed

\* git_checkout_safety_hook.py lines 20-29: the positions of `git checkout`
\* in the command, and what follows them
Checkouts(command) ==
    {k \in 1..Len(command) :
        k + 2 <= Len(command) /\ command[k] = "git" /\ command[k + 1] = "checkout"}

\* git_checkout_safety_hook.py lines 12-97; status is what `git status
\* --porcelain` shows of the work tree
check_git_checkout_command(command, status) ==
    IF ~(Len(command) >= 2 /\ command[1] = "git" /\ command[2] = "checkout")
    THEN Allowed
    ELSE IF \E k \in 1..Len(command) : command[k] \in SafeCheckoutWords
    THEN Allowed
    ELSE IF \E k \in Checkouts(command) : command[k + 2] = "-f"
    THEN Blocked("'git checkout -f' FORCES checkout and DISCARDS all uncommitted changes!")
    ELSE IF \E k \in Checkouts(command) : command[k + 2] \in DotWords
    THEN Blocked("'git checkout .' will DISCARD ALL changes in current directory!")
    ELSE IF \E k \in Checkouts(command) : \E j \in (k + 3)..(Len(command) - 1) :
                command[j] = "--" /\ command[j + 1] \in DotWords
    THEN Blocked("This will DISCARD ALL changes in current directory!")
    ELSE IF \E k \in Checkouts(command) : \E j \in (k + 3)..(Len(command) - 1) :
                command[j] = "--"
    THEN Blocked("This will overwrite your local file with version from another branch/commit!")
    ELSE IF status = "failed" THEN Blocked("Could not verify repository status: ...")
    ELSE IF status = "dirty" THEN Blocked("WARNING: You have uncommitted change(s) that may be lost! ...")
    ELSE Allowed

\* bash_hook.py lines 32-43
Verdicts(command, status) ==
    <<check_rm_command(command), check_git_add_command(command),
      check_git_checkout_command(command, status)>>

\* only the last check that ran is listened to
LastVerdictOnly(verdicts) ==
    IF verdicts[Len(verdicts)].should_block
    THEN <<verdicts[Len(verdicts)].reason>> ELSE <<>>

\* bash_hook.py lines 38-43
blocking_reasons(verdicts) ==
    LET blocking == SelectSeq(verdicts, LAMBDA v : v.should_block) IN
    [k \in 1..Len(blocking) |-> blocking[k].reason]

\* bash_hook.py lines 51-53: the text, as the sequence of the pieces appended
RECURSIVE Numbered(_, _)
Numbered(reasons, i) ==
    IF i > Len(reasons) THEN <<>>
    ELSE <<ToString(i), ". ", reasons[i], "\n\n">> \o Numbered(reasons, i + 1)

\* bash_hook.py lines 46-60
Decision(reasons) ==
    IF reasons # <<>>
    THEN [decision |-> "block",
          reason |-> IF Len(reasons) = 1 THEN <<reasons[1]>>
                     ELSE <<"Multiple safety checks failed:\n\n">> \o Numbered(reasons, 1)]
    ELSE [decision |-> "approve", reason |-> <<>>]

\* bash_hook.py lines 19-62
main(tool_name, command, status) ==
    IF tool_name # "Bash" THEN [decision |-> "approve", reason |-> <<>>]
    ELSE Decision(blocking_reasons(Verdicts(command, status)))

ToolNames == {"Bash", "Edit", None}

WorkTrees == {"clean", "dirty", "failed"}

InitHook ==
    /\ panes = <<Handle(0)>>
    /\ own = Handle(0)
    /\ nextId = 1
    /\ alive = TRUE
    /\ target_pane = None
    /\ resolved = NoResolution
    /\ killed = {}
    /\ last = NoCall
    /\ IdleOff
    /\ sk = NoSend
    /\ CliLocal
    /\ wp = NoPrompt
    /\ hook \in [pc : {"stdin"}, tool_name : ToolNames, command : Commands,
                 status : WorkTrees, printed : {None}]
    /\ FilesOff

\* bash_hook.py lines 19-62
HookMain ==
    /\ hook.pc = "stdin"
    /\ hook' = [hook EXCEPT !.pc = "exit",
                            !.printed = main(hook.tool_name, hook.command, hook.status)]
    /\ UNCHANGED <<ctlVars, idleVars, sk, cliVars, wp, fileVars>>

NextHook == HookMain

SpecHook == InitHook /\ [][NextHook]_vars

\* ------------------------------------------------ the subtask flag hooks
\* subtasks that may be in progress at once
MaxSubtasks == 3

\* the files a Read may name: none, one that is missing, a binary one, and
\* text files by their line count
Files ==
    {[file_path |-> None, exists |-> FALSE, binary |-> FALSE, line_count |-> 0],
     [file_path |-> "gone.txt", exists |-> FALSE, binary |-> FALSE, line_count |-> 0],
     [file_path |-> "a.bin", exists |-> TRUE, binary |-> TRUE, line_count |-> 20000]}
    \cup {[file_path |-> "a.txt", exists |-> TRUE, binary |-> FALSE, line_count |-> n] :
            n \in {500, 501, 10000, 10001}}

\* file_size_conditional_hook.py lines 22-96
file_size_hook(is_main_agent, file) ==
    IF Truthy(file.file_path) /\ file.exists
    THEN IF file.binary THEN "approve"
         ELSE IF is_main_agent /\ file.line_count > 500 THEN "block"
         ELSE IF ~is_main_agent /\ file.line_count > 10000 THEN "block"
         ELSE "approve"
    ELSE "approve"

InitFlag ==
    /\ panes = <<Handle(0)>>
    /\ own = Handle(0)
    /\ nextId = 1
    /\ alive = TRUE
    /\ target_pane = None
    /\ resolved = NoResolution
    /\ killed = {}
    /\ last = NoCall
    /\ IdleOff
    /\ sk = NoSend
    /\ CliLocal
    /\ wp = NoPrompt
    /\ hook = NoHook
    /\ vault = [pc |-> "off"]
    /\ subtask = [pc |-> "on", flag |-> FALSE, running |-> 0,
                  is_main_agent |-> TRUE, running0 |-> 0, file_path |-> None,
                  line_count |-> 0, decision |-> None]

\* pretask_subtask_flag.py lines 7-9: a subtask starts
PreTask ==
    /\ subtask.pc = "on"
    /\ subtask.running < MaxSubtasks
    /\ subtask' = [subtask EXCEPT !.flag = TRUE, !.running = @ + 1]
    /\ UNCHANGED <<ctlVars, idleVars, sk, cliVars, wp, hook, vault>>

\* posttask_subtask_flag.py lines 7-9: a subtask ends; the flag file is
\* removed if it is there
PostTask ==
    /\ subtask.pc = "on"
    /\ subtask.running > 0
    /\ subtask' = [subtask EXCEPT !.flag = FALSE, !.running = @ - 1]
    /\ UNCHANGED <<ctlVars, idleVars, sk, cliVars, wp, hook, vault>>

\* file_size_conditional_hook.py lines 8-96: a Read is about to run
FileSizeHook(file) ==
    /\ subtask.pc = "on"
    /\ subtask' = [subtask EXCEPT !.is_main_agent = ~subtask.flag,
                                  !.running0 = subtask.running,
                                  !.file_path = file.file_path,
                                  !.line_count = file.line_count,
                                  !.decision = file_size_hook(~subtask.flag, file)]
    /\ UNCHANGED <<ctlVars, idleVars, sk, cliVars, wp, hook, vault>>

NextFlag ==
    \/ PreTask
    \/ PostTask
    \/ \E file \in Files : FileSizeHook(file)

SpecFlag == InitFlag /\ [][NextFlag]_vars

\* ------------------------------------------------ dotenv_vault.py, decrypt
\* the clock of SpecVault runs to MaxSeconds, in seconds: the resolution of
\* the timestamp "%Y%m%d_%H%M%S"
MaxSeconds == 3

\* what the user may have written to .env
UserContents == {"KEY=a", "KEY=b"}

\* what `sops --decrypt` writes to its stdout when it succeeds
Decrypted == "KEY=vault"

\* no such file
NoFile == None

\* lines 108-109: the backup name made at second t
BackupName(t) == ".env.backup-" \o ToString(t)

\* lines 87-127: decrypt at second t in directory state v; confirm is the
\* user's answer if asked, sops_ok whether sops exits with status 0
decrypt(v, t, confirm, sops_ok) ==
    IF ~v.encrypted THEN [v EXCEPT !.ret = "False", !.wrote = FALSE]
    ELSE IF v.env # NoFile /\ v.env_mtime > v.encrypted_mtime /\ ~confirm
    THEN [v EXCEPT !.ret = "False", !.wrote = FALSE]
    ELSE [v EXCEPT
            !.backups = IF v.env # NoFile
                        THEN [n \in DOMAIN @ \cup {BackupName(t)} |->
                                IF n = BackupName(t) THEN v.env ELSE @[n]]
                        ELSE @,
            !.renamed = IF v.env # NoFile THEN @ \cup {v.env} ELSE @,
            !.env = IF sops_ok THEN Decrypted ELSE "",
            !.env_mtime = t,
            !.ret = IF sops_ok THEN "True" ELSE "False",
            !.wrote = TRUE]

InitVault ==
    /\ panes = <<Handle(0)>>
    /\ own = Handle(0)
    /\ nextId = 1
    /\ alive = TRUE
    /\ target_pane = None
    /\ resolved = NoResolution
    /\ killed = {}
    /\ last = NoCall
    /\ wpc = "off" /\ now = 1 /\ idle_time = 0 /\ check_interval = 1
    /\ timeout = NoTimeout /\ start_time = 0 /\ last_change_time = 0
    /\ last_hash = "" /\ wresult = None /\ screen = "" /\ top_time = 0
    /\ prev_hash = "" /\ cur_hash = "" /\ diff_time = 0 /\ all_same = TRUE
    /\ overhead = 0
    /\ sk = NoSend
    /\ CliLocal
    /\ wp = NoPrompt
    /\ hook = NoHook
    /\ subtask = [pc |-> "off"]
    /\ vault \in [pc : {"on"}, env : {NoFile} \cup UserContents, env_mtime : {0},
                  encrypted : BOOLEAN, encrypted_mtime : {0, 1},
                  backups : {<<>>}, renamed : {{}}, ret : {None}, wrote : {FALSE},
                  before : {None}]

\* lines 87-127: a decrypt call, from start to return
Decrypt(confirm, sops_ok) ==
    /\ vault.pc = "on"
    /\ vault' = [decrypt(vault, now, confirm, sops_ok) EXCEPT
                    !.before = [env |-> vault.env, backups |-> vault.backups]]
    /\ UNCHANGED <<ctlVars, idleVars, sk, cliVars, wp, hook, subtask>>

\* the user edits .env
EditEnv(c) ==
    /\ vault.pc = "on"
    /\ c # vault.env
    /\ vault' = [vault EXCEPT !.env = c, !.env_mtime = now, !.ret = None,
                              !.wrote = FALSE, !.before = None]
    /\ UNCHANGED <<ctlVars, idleVars, sk, cliVars, wp, hook, subtask>>

\* a second passes
Second ==
    /\ vault.pc = "on"
    /\ now < MaxSeconds
    /\ now' = now + 1
    /\ UNCHANGED <<ctlVars, idleLocals, sk, cliVars, wp, hook, fileVars>>

NextVault ==
    \/ \E confirm \in BOOLEAN, sops_ok \in BOOLEAN : Decrypt(confirm, sops_ok)
    \/ \E c \in UserContents : EditEnv(c)
    \/ Second

SpecVault == InitVault /\ [][NextVault]_vars

\* ================================================================ claims
\* the controller methods that require a target
TargetOps == {"send_keys", "capture_pane", "wait_for_prompt", "wait_for_idle",
              "kill_pane", "resize_pane", "focus_pane", "send_interrupt",
              "send_escape", "clear_pane"}

FacadeOps == {"CLI.send", "CLI.capture", "CLI.interrupt", "CLI.escape", "CLI.kill",
              "CLI.wait_idle"}

\* the pane at index i of window ps, None when there is none
PaneAt(ps, i) == IF i + 1 \in 1..Len(ps) THEN ps[i + 1] ELSE None

\* the target the returned controller call addressed
EffectiveTarget == Or(last.pane_id, last.tp0)

\* the returned call resolved a pane index: which one, NoIndex when it did not
ResolvedIndex ==
    IF last.op = "select_pane" /\ ~Truthy(last.pane_id) THEN last.index
    ELSE IF last.op \in FacadeOps /\ Truthy(last.pane_id) /\ IsDigit(last.pane_id)
    THEN ParseInt(last.pane_id)
    ELSE NoIndex

\* the returned call makes a selection: create, launch, select, or a facade call
\* given a pane
Selecting ==
    \/ last.op \in {"create_pane", "launch_cli", "CLI.launch", "select_pane"}
    \/ last.op \in FacadeOps /\ Truthy(last.pane_id)

\* C1: kill_pane whose effective target is the pane hosting the caller, as
\* get_current_pane reports it, is rejected with the self-termination error
\* and issues no kill-pane, whether the target came from pane_id or from
\* target_pane.
C1_KillOwnPaneAlwaysRejected ==
    (last.op = "kill_pane" /\ Truthy(EffectiveTarget) /\ EffectiveTarget = last.cur) =>
        (last.exc = SelfTerminationRejected /\ ~IssuedAny(last.cmds, "kill-pane"))

\* C2: CLI.kill(pane=X), X the handle or the index of the caller's own pane,
\* issues no kill-pane against that pane.
C2_FacadeNeverKillsOwnPane ==
    (/\ last.op = "CLI.kill"
     /\ last.cur = own
     /\ \/ last.pane_id = own
        \/ IsDigit(last.pane_id) /\ PaneAt(last.panes0, ParseInt(last.pane_id)) = own)
    => ~Issued(last.cmds, "kill-pane", own)

\* C7: a kill_pane that went through against the last-selected target
\* clears target_pane; and while target_pane is unset, a call that is no
\* create or select leaves it unset, and a target-omitting call fails with
\* the no-target error without a bridge command.
C7_KillClearsLastSelected ==
    /\ (last.op = "kill_pane" /\ last.exc = "" /\ EffectiveTarget = last.tp0)
          => target_pane = None
    /\ (last.op # "" /\ last.tp0 = None /\ ~Selecting) =>
          /\ target_pane = None
          /\ (last.op \in TargetOps /\ ~Truthy(last.pane_id)) =>
                (last.exc = NoTargetSpecified /\ last.cmds = <<>>)

\* the last-selected pane, live and not the caller's, has just been killed
C7_Witness ==
    /\ last.op = "kill_pane"
    /\ last.exc = ""
    /\ Truthy(last.tp0)
    /\ EffectiveTarget = last.tp0
    /\ Live(last.panes0, last.tp0)
    /\ ~Live(panes, last.tp0)
    /\ target_pane = None

\* C8: resolving a pane index that no pane of the window carries is reported
\* to the caller as a failure, by select_pane and by the facade calls.
C8_UnmatchedIndexIsReported ==
    (ResolvedIndex # NoIndex /\ PaneAt(last.panes0, ResolvedIndex) = None) =>
        \/ last.exc # ""
        \/ last.op = "CLI.kill" /\ last.printed # "Pane killed"

\* C9: when the index that gave target_pane is resolved again after a pane
\* exited out-of-band, the target afterwards is not the handle of the
\* earlier resolution, unless that handle still carries the index.
C9_NoStaleHandleAfterReresolution ==
    (/\ ResolvedIndex # NoIndex
     /\ last.prev.idx = ResolvedIndex
     /\ last.prev.removed
     /\ target_pane = last.tp0)
    => PaneAt(last.panes0, ResolvedIndex) = last.tp0

\* C10: a controller method that requires a target, called without pane_id
\* while target_pane is unset, raises the no-target error, issues no bridge
\* command and leaves target_pane unset.
C10_NoTargetIsAnError ==
    (last.op \in TargetOps /\ last.pane_id = None /\ last.tp0 = None) =>
        (last.exc = NoTargetSpecified /\ last.cmds = <<>> /\ target_pane = None)

\* wait_for_idle was called with neither pane_id nor a selected pane
C10_Witness ==
    /\ last.op = "wait_for_idle"
    /\ last.pane_id = None
    /\ last.tp0 = None
    /\ last.exc = NoTargetSpecified

\* elapsed time since the call began
Elapsed == now - start_time

\* idle_time plus one check_interval
Bound == idle_time + check_interval

\* C3: with a supplied timeout strictly smaller than idle_time (0 included)
\* wait_for_idle returns False and never True, whatever the pane shows and
\* however long the captures take.
C3_ShortTimeoutNeverSucceeds ==
    (timeout # NoTimeout /\ timeout < idle_time) => wresult # "True"

\* C4: when wait_for_idle returns True, the latest capture has the
\* fingerprint of the previous tick's capture, and at least idle_time has
\* passed since the latest capture whose fingerprint differed from its
\* predecessor's.
C4_SuccessOnlyAfterIdleTime ==
    wresult = "True" => (cur_hash = prev_hash /\ now - diff_time >= idle_time)

\* a success after the content changed during the call, with idle_time > 0
C4_Witness ==
    /\ wresult = "True"
    /\ ~all_same
    /\ idle_time > 0
    /\ diff_time > start_time

\* C5 as stated: with identical captures throughout and no timeout shorter
\* than idle_time + check_interval, the call returns True no later than
\* idle_time + check_interval after the loop starts: no tick starts later
\* than that, and the call returns True, by then.
C5_SuccessWithinIdlePlusInterval ==
    (all_same /\ (timeout = NoTimeout \/ timeout >= Bound)) =>
        /\ wpc = "top" => Elapsed <= Bound
        /\ wpc = "done" => (wresult = "True" /\ Elapsed <= Bound)

\* C5 amended: with identical captures throughout, the call returns no later
\* than idle_time + check_interval plus the time spent inside the captures
\* after the loop starts, and it returns True unless a nonzero timeout
\* shorter than that was supplied.
C5_SuccessWithinBoundPlusCaptures ==
    all_same =>
        /\ wpc = "top" => Elapsed <= Bound + overhead
        /\ wresult = "True" => Elapsed <= Bound + overhead
        /\ wresult = "False" =>
              (timeout # NoTimeout /\ timeout # 0 /\ timeout < Bound + overhead)

\* identical captures that took time, and a success later than
\* idle_time + check_interval
C5_Witness ==
    /\ all_same
    /\ wresult = "True"
    /\ overhead > 0
    /\ Elapsed > Bound

\* C6: once a supplied timeout has been exceeded at a deadline check, the
\* call has returned False: it neither goes on polling nor returns True.
C6_ExceededDeadlineReturnsFalse ==
    (timeout # NoTimeout /\ wpc \in {"sleep", "done"} /\ top_time - start_time > timeout)
        => wresult = "False"

\* ----------------------------------------------- claims C11 .. C20 (Spec)
\* the bridge commands that change a pane or the window
MutatingCmds == {"send-keys", "kill-pane", "split-window", "resize-pane", "select-pane"}

IssuedMutating == \E k \in 1..Len(last.cmds) : last.cmds[k].cmd \in MutatingCmds

\* the returned call ended in error e: raised, or caught and printed by CLI.kill
EndedIn(e) == last.exc = e \/ (last.op = "CLI.kill" /\ last.printed = e)

\* the returned call is CLI.kill naming, by handle or by index, the pane that
\* hosts the caller
KillNamesOwnPane ==
    /\ last.op = "CLI.kill"
    /\ last.cur = own
    /\ \/ last.pane_id = own
       \/ IsDigit(last.pane_id) /\ PaneAt(last.panes0, ParseInt(last.pane_id)) = own

\* the returned call left target_pane and the window as they were and issued
\* no mutating bridge command
NoSideEffects == target_pane = last.tp0 /\ panes = last.panes0 /\ ~IssuedMutating

\* C11: a call that ends in the no-target or the self-termination error has
\* had no side effects, and CLI.kill naming the caller's own pane is such a
\* call: target_pane is as before and no mutating bridge command was issued.
C11_RejectedCallHasNoSideEffects ==
    /\ (EndedIn(NoTargetSpecified) \/ EndedIn(SelfTerminationRejected)) => NoSideEffects
    /\ KillNamesOwnPane => NoSideEffects

\* the controller methods that neither create, select nor kill a pane
KeepingOps == {"send_keys", "capture_pane", "wait_for_prompt", "wait_for_idle",
               "resize_pane", "focus_pane", "send_interrupt", "send_escape",
               "clear_pane", "list_panes"}

ControllerOps == TargetOps \cup {"list_panes", "create_pane", "launch_cli", "select_pane"}

\* the pane the returned select_pane call names: by handle, or by its index
\* in the window
Named == IF Truthy(last.pane_id) THEN last.pane_id ELSE PaneAt(last.panes0, last.index)

\* C12: over the controller's methods target_pane changes only by a create_pane
\* or launch_cli whose split succeeded (to the handle returned), by select_pane
\* (to the pane named), or by a kill_pane of that very target (to None); the
\* other methods, and a kill_pane of another target, leave it as it was, with
\* and without an explicit pane_id.
C12_LastSelectedChangesOnlyBySelection ==
    /\ last.op \in KeepingOps => target_pane = last.tp0
    /\ (last.op = "kill_pane" /\ EffectiveTarget # last.tp0) => target_pane = last.tp0
    /\ (last.op \in ControllerOps /\ target_pane # last.tp0) =>
          \/ /\ last.op \in {"create_pane", "launch_cli"}
             /\ last.codes = <<0>>
             /\ last.ret # None
             /\ target_pane = last.ret
          \/ last.op = "select_pane" /\ target_pane = Named
          \/ /\ last.op = "kill_pane"
             /\ last.exc = ""
             /\ EffectiveTarget = last.tp0
             /\ target_pane = None

\* keys were sent to an explicitly named pane other than the selected one
C12_Witness ==
    /\ last.op = "send_keys"
    /\ Truthy(last.pane_id)
    /\ Truthy(last.tp0)
    /\ last.pane_id # last.tp0
    /\ Issued(last.cmds, "send-keys", last.pane_id)
    /\ target_pane = last.tp0

\* C13: create_pane and launch_cli, when the split succeeds, return the handle
\* of the new pane and make it target_pane; when the split fails they return
\* None and leave target_pane and the window as they were.
C13_CreateSelectsOnSuccessOnly ==
    last.op \in {"create_pane", "launch_cli"} =>
        /\ last.codes = <<0>> =>
              /\ last.ret \in Handles
              /\ ~Live(last.panes0, last.ret)
              /\ Live(panes, last.ret)
              /\ target_pane = last.ret
        /\ last.codes # <<0>> =>
              /\ last.ret = None
              /\ target_pane = last.tp0
              /\ panes = last.panes0

\* a launch failed while a pane was selected
C13_Witness ==
    /\ last.op = "launch_cli"
    /\ last.codes = <<1>>
    /\ Truthy(last.tp0)
    /\ last.ret = None
    /\ target_pane = last.tp0

\* the lifecycle and mutating methods
MutatingOps == {"create_pane", "kill_pane", "send_keys", "send_interrupt",
                "send_escape", "clear_pane", "resize_pane", "focus_pane"}

\* a mutating bridge command of the returned call came back nonzero
MutatingFailed ==
    \E k \in 1..Len(last.cmds) :
        last.cmds[k].cmd \in MutatingCmds /\ last.codes[k] # 0

\* the outcome differs from that of a success: an exception, or None where
\* a success returns the new handle
Surfaced == last.exc # "" \/ (last.op = "create_pane" /\ last.ret = None)

\* C16: when a mutating bridge command of create_pane, kill_pane, send_keys,
\* send_interrupt, send_escape, clear_pane, resize_pane or focus_pane comes
\* back with a nonzero status, the caller gets an exception or a failure
\* return value.
C16_BridgeFailureIsSurfaced ==
    (last.op \in MutatingOps /\ MutatingFailed) => Surfaced

\* a status of the returned call's bridge commands was nonzero
SomeFailed == \E k \in 1..Len(last.codes) : last.codes[k] # 0

\* C17: on a nonzero bridge status list_panes returns the empty list and
\* capture_pane returns the bridge's output, empty for a pane tmux does not
\* find; neither raises.
C17_ReadOnlyFailureDegrades ==
    /\ (last.op = "list_panes" /\ SomeFailed) => (last.exc = "" /\ last.ret = "[]")
    /\ (last.op = "capture_pane" /\ SomeFailed) =>
          (last.exc = "" /\ last.ret = Screen(last.panes0, EffectiveTarget))

\* a capture of a pane that is not there returned the empty text
C17_Witness ==
    /\ last.op = "capture_pane"
    /\ last.codes = <<1>>
    /\ ~Live(last.panes0, EffectiveTarget)
    /\ last.exc = ""
    /\ last.ret = ""

\* the handles of no initial window: a pane carrying one was split off by
\* create_pane or launch_cli
SplitOff == {h \in Handles : \A w \in InitWindows : ~Live(w, h)}

\* the returned call issued bridge command c against a pane of set hs that
\* was gone when the call was made
IssuedAgainstGone(c, hs) ==
    \E k \in 1..Len(last.cmds) :
        /\ last.cmds[k].cmd \in c
        /\ last.cmds[k].t \in hs
        /\ ~Live(last.panes0, last.cmds[k].t)

\* C18: a capture, by the controller or the facade, of a pane that the
\* controller created and then destroyed with kill_pane raises an error.
C18_CaptureOfKilledPaneFails ==
    (/\ last.op \in {"capture_pane", "CLI.capture"}
     /\ IssuedAgainstGone({"capture-pane"}, killed \cap SplitOff))
    => last.exc # ""

\* the handles tmux has allocated so far
Allocated == {Handle(n) : n \in 0..(nextId - 1)}

\* C19: send_keys, send_interrupt, send_escape, clear_pane, resize_pane,
\* focus_pane, kill_pane and wait_for_idle addressed to the handle of a pane
\* that was killed or whose command exited raise an error (or, for
\* wait_for_idle, return False).
C19_UseOfDestroyedHandleFails ==
    (/\ last.op \in (MutatingOps \cup {"wait_for_idle"}) \ {"create_pane"}
     /\ Truthy(EffectiveTarget)
     /\ EffectiveTarget \in Allocated
     /\ ~Live(last.panes0, EffectiveTarget))
    => (last.exc # "" \/ (last.op = "wait_for_idle" /\ last.ret = "False"))

\* C20: once this controller's kill-pane has closed the pane of handle h,
\* target_pane is never h and no bridge command is issued against h.
C20_DestroyedHandleNeverAddressed ==
    /\ target_pane \notin killed
    /\ ~IssuedAgainstGone({"send-keys", "capture-pane", "kill-pane", "resize-pane",
                           "select-pane"}, killed)

\* ------------------------------------------- claims C14, C15 (SpecSend)
\* the pane the followed send_keys call addresses
SendTarget == Or(sk.pane_id, target_pane)

\* the delay as the claim states it: 1 for True, else the number given
ClaimedDelay == IF sk.delay_enter.isbool THEN 1 ELSE sk.delay_enter.v

\* C14: send_keys with enter and a truthy delay_enter makes exactly two
\* bridge calls to the target: the text alone, then Enter alone, the second
\* starting at least the delay (1 for True, else the number given) after the
\* first returned; Enter is in no call before or together with the text.
C14_TextThenDelayThenEnter ==
    (sk.pc # "off" /\ sk.enter /\ sk.delay_enter.v # 0 /\ Truthy(SendTarget)) =>
        /\ Len(sk.log) <= 2
        /\ Len(sk.log) >= 1 => sk.log[1].keys = <<"text">> /\ sk.log[1].t = SendTarget
        /\ Len(sk.log) >= 2 =>
              /\ sk.log[2].keys = <<"Enter">>
              /\ sk.log[2].t = SendTarget
              /\ sk.log[2].from - sk.log[1].to >= ClaimedDelay
        /\ sk.pc = "done" => (sk.exc = "" /\ Len(sk.log) = 2)

\* a call with delay_enter=2 returned, Enter sent exactly 2 after the text
C14_Witness ==
    /\ sk.pc = "done"
    /\ sk.enter
    /\ sk.delay_enter = [isbool |-> FALSE, v |-> 2]
    /\ Len(sk.log) = 2
    /\ sk.log[2].keys = <<"Enter">>
    /\ sk.log[2].from - sk.log[1].to = 2

\* C15: send_keys with enter=False makes exactly one bridge call, carrying
\* the text and no Enter, and never sleeps, whatever delay_enter is; with
\* enter and a falsy delay_enter (False or 0) it makes exactly one bridge
\* call carrying the text followed by Enter.
C15_SingleCallWithoutDelay ==
    (sk.pc = "done" /\ Truthy(SendTarget)) =>
        /\ ~sk.enter =>
              /\ sk.exc = ""
              /\ Len(sk.log) = 1
              /\ sk.log[1].keys = <<"text">>
              /\ sk.log[1].t = SendTarget
              /\ sk.slept = 0
        /\ (sk.enter /\ sk.delay_enter.v = 0) =>
              /\ sk.exc = ""
              /\ Len(sk.log) = 1
              /\ sk.log[1].keys = <<"text", "Enter">>
              /\ sk.log[1].t = SendTarget
              /\ sk.slept = 0

\* a call with enter=False and delay_enter=True returned after one call
C15_Witness ==
    /\ sk.pc = "done"
    /\ ~sk.enter
    /\ sk.delay_enter = [isbool |-> TRUE, v |-> 1]
    /\ Len(sk.log) = 1
    /\ sk.slept = 0

\* ----------------------------------------- claims C21 .. C24 (SpecCli)
AllFacadeOps == FacadeOps \cup {"CLI.launch", "CLI.list_panes", "CLI.attach",
                                 "CLI.cleanup", "CLI.list_windows"}

\* C21: with the remote backend every facade operation raises the
\* remote-mode-unavailable error, issues no bridge command and prints neither
\* a result nor a status line.
C21_RemoteOperationsAreUnsupported ==
    (mode = "remote" /\ last.op \in AllFacadeOps) =>
        (last.exc = Unavailable /\ last.printed = "" /\ last.cmds = <<>>)

\* C22: once constructed, the facade is local iff TMUX was set and non-empty
\* when __init__ read it, and remote otherwise; the mode agrees with the
\* class of the controller held; and no step changes mode or controller,
\* whatever is called and however TMUX changes.
C22_BackendChosenOnceAtConstruction ==
    /\ [](controller # None =>
            /\ mode \in {"local", "remote"}
            /\ (mode = "local") <=> (environ0 # None /\ environ0 # "")
            /\ (mode = "local") <=> (controller = Local)
            /\ (mode = "remote") <=> (controller = Remote))
    /\ [][controller # None => (mode' = mode /\ controller' = controller)]_vars

\* a facade built with TMUX empty served a call after TMUX was set
C22_Witness ==
    /\ controller = Remote
    /\ environ0 = ""
    /\ environ = TmuxSocket
    /\ last.op = "CLI.send"

LocalOnlyMessages ==
    [attach |-> "Attach is only available in remote mode (when outside tmux)",
     cleanup |-> "Cleanup is only available in remote mode (when outside tmux)",
     list_windows |->
         "List_windows is only available in remote mode. Use list_panes instead."]

\* C23: with the local backend attach, cleanup and list_windows print their
\* message, raise nothing, issue no bridge command and leave target_pane,
\* the window, the mode and the controller as they were.
C23_LocalAttachCleanupListWindowsAreNoOps ==
    [][(mode = "local" /\ last = NoCall
        /\ last'.op \in {"CLI.attach", "CLI.cleanup", "CLI.list_windows"}) =>
           /\ last'.exc = ""
           /\ last'.cmds = <<>>
           /\ last'.op = "CLI.attach" => last'.printed = LocalOnlyMessages.attach
           /\ last'.op = "CLI.cleanup" => last'.printed = LocalOnlyMessages.cleanup
           /\ last'.op = "CLI.list_windows" => last'.printed = LocalOnlyMessages.list_windows
           /\ target_pane' = target_pane
           /\ panes' = panes
           /\ mode' = mode
           /\ controller' = controller]_vars

\* attach was called on a local facade with a pane selected
C23_Witness ==
    /\ mode = "local"
    /\ last.op = "CLI.attach"
    /\ Truthy(last.tp0)
    /\ target_pane = last.tp0
    /\ last.printed = LocalOnlyMessages.attach

\* the returned facade call did not do what was asked: kill printed an error
\* instead of killing, or a command it sent came back nonzero, or the wait
\* timed out
FacadeCallFailed ==
    \/ last.op = "CLI.kill" /\ last.printed # "Pane killed"
    \/ last.op \in {"CLI.send", "CLI.kill"} /\ MutatingFailed
    \/ last.op = "CLI.wait_idle" /\ last.printed = "Timeout waiting for idle"

\* what the facade method returns when it did what was asked
SuccessValue == IF last.op = "CLI.wait_idle" THEN "True" ELSE None

\* C24: CLI.send, CLI.kill and CLI.wait_idle return a success/failure signal:
\* a call that returns after a failure returns a value other than the one
\* returned after a success.
C24_FacadeReturnsSuccessSignal ==
    (/\ mode = "local"
     /\ last.op \in {"CLI.send", "CLI.kill", "CLI.wait_idle"}
     /\ last.exc = ""
     /\ FacadeCallFailed)
    => last.ret # SuccessValue

\* ------------------------------------------ claims C25 (SpecPrompt)
\* C25: wait_for_prompt returns True only if a capture of the trailing window
\* taken during the call matched the pattern; it returns False only once the
\* time elapsed since the call began has reached timeout, no capture having
\* matched; with timeout = 0 it returns False without any capture; and every
\* call ends.
C25_PromptWaitOutcome ==
    /\ [](wp.pc = "done" /\ wp.ret = "True"
            => wp.matched /\ wp.captures > 0 /\ Search(Prompt, wp.content)
               /\ wp.content = CaptureLines(wp.buffer, Window))
    /\ [](wp.pc = "done" /\ wp.ret = "False"
            => now - wp.start_time >= wp.timeout /\ ~wp.matched)
    /\ [](wp.pc = "done" /\ wp.timeout = 0 /\ wp.exc = ""
            => wp.ret = "False" /\ wp.captures = 0)
    /\ <>(wp.pc = "done")

C25_Witness ==
    /\ wp.pc = "done" /\ wp.ret = "False"
    /\ wp.captures > 1
    /\ Search(Prompt, wp.buffer)
    /\ now - wp.start_time >= wp.timeout

\* ------------------------------------------ claims C26 (SpecHook)
Wants(check) == check.should_block

HookChecks == Verdicts(hook.command, hook.status)

Piece(text, r) == \E k \in 1..Len(text) : text[k] = r

\* C26: the unified hook blocks a Bash command exactly when at least one of
\* the rm, git add and git checkout checks wants to block it; the reason it
\* prints contains the reason of every check that blocks; a call of any other
\* tool is approved.
C26_AnyCheckBlocks ==
    hook.pc = "exit" =>
        /\ hook.tool_name = "Bash" =>
            /\ hook.printed.decision = "block" <=> \E i \in 1..3 : Wants(HookChecks[i])
            /\ hook.printed.decision \in {"block", "approve"}
            /\ \A i \in 1..3 : Wants(HookChecks[i])
                    => Piece(hook.printed.reason, HookChecks[i].reason)
        /\ hook.tool_name # "Bash" => hook.printed.decision = "approve"

C26_Witness ==
    /\ hook.pc = "exit" /\ hook.tool_name = "Bash"
    /\ Wants(HookChecks[1]) /\ ~Wants(HookChecks[2]) /\ Wants(HookChecks[3])
    /\ hook.printed.decision = "block"
    /\ Len(hook.printed.reason) > 1

\* ------------------------------------------ claims C27 .. C30 (SpecIdle)
\* the sleeps the loop has completed: the time of the call not spent in captures
Sleeps == (Elapsed - overhead) \div check_interval

\* C27: when every capture of a call shows the same content and idle_time is
\* smaller than check_interval, the call declares the target idle on its
\* first or second tick: it returns True having slept at most once.
C27_IdleByTheSecondTick ==
    (wpc # "call" /\ all_same /\ idle_time < check_interval) =>
        /\ Sleeps <= 1
        /\ wpc = "done" => wresult = "True"

\* C27, amended: ... on its second tick, after exactly one sleep, unless a
\* positive timeout is found exceeded when the second tick begins, in which
\* case the call returns False there.
C27_IdleByTheSecondTickUnlessTimedOut ==
    (wpc # "call" /\ all_same /\ idle_time < check_interval) =>
        /\ Sleeps <= 1
        /\ wpc = "done" =>
            /\ Sleeps = 1
            /\ \/ wresult = "True" /\ cur_hash = prev_hash
               \/ wresult = "False" /\ timeout > 0 /\ Elapsed > timeout

C27_Witness ==
    /\ wpc = "done" /\ wresult = "True"
    /\ all_same /\ idle_time < check_interval /\ idle_time > 0
    /\ timeout > 0
    /\ Sleeps = 1

\* the latest tick saw the content of the tick before it, idle_time or more
\* after the latest capture that differed
IdleObserved == cur_hash = prev_hash /\ now - diff_time >= idle_time

C29_ReturnsOnTimeoutOrIdleness ==
    /\ (timeout > 0 => <>(wpc = "done"))
    /\ [](timeout = NoTimeout /\ wpc = "done" => wresult = "True" /\ IdleObserved)
    /\ [](timeout = NoTimeout /\ wpc = "sleep" => ~IdleObserved)

C29_Witness ==
    /\ wpc = "done" /\ wresult = "False"
    /\ timeout > 0
    /\ cur_hash # prev_hash
    /\ Sleeps >= 2

\* the call addresses a handle no pane of the window has
Missing == ~Live(panes, target_pane)

C32_KillClearsWhateverTheStatus ==
    (/\ last.op = "kill_pane"
     /\ Truthy(EffectiveTarget) /\ EffectiveTarget = last.tp0
     /\ last.exc # SelfTerminationRejected)
    => /\ last.exc = ""
       /\ Issued(last.cmds, "kill-pane", EffectiveTarget)
       /\ target_pane = None

\* kill-pane failed against the last-selected target, which is cleared
C32_Witness ==
    /\ last.op = "kill_pane"
    /\ Truthy(last.tp0) /\ EffectiveTarget = last.tp0
    /\ last.codes[Len(last.codes)] = 1
    /\ target_pane = None

\* the pane the identifier given to the returned facade call resolves to: the
\* handle itself, or the pane the listing has at that index; None when the
\* index matches no pane of the listing
Picked ==
    IF ~IsDigit(last.pane_id) THEN last.pane_id
    ELSE IF last.codes[1] = 0 THEN PaneAt(last.panes0, ParseInt(last.pane_id))
    ELSE None

\* the bridge commands of the returned call that name a pane all name h, and
\* there is one
OperatedOn(h) ==
    /\ \A k \in 1..Len(last.cmds) : last.cmds[k].t # "" => last.cmds[k].t = h
    /\ \E k \in 1..Len(last.cmds) : last.cmds[k].t = h

\* C33: in local mode a facade operation given a pane identifier that
\* resolves makes that pane the last-selected reference and operates on it,
\* and the reference stays, so that an operation with pane omitted operates
\* on the last-selected pane; given an index that matches no pane, the
\* reference is left as it was and the operation is applied to the pane
\* selected before.
C33_FacadeSelectsThenOperates ==
    (last.op \in FacadeOps /\ mode = "local") =>
        /\ (Truthy(last.pane_id) /\ Picked # None)
              => (OperatedOn(Picked) /\ target_pane = Picked)
        /\ (~Truthy(last.pane_id) /\ Truthy(last.tp0)) => OperatedOn(last.tp0)
        /\ (Truthy(last.pane_id) /\ Picked = None /\ Truthy(last.tp0))
              => (OperatedOn(last.tp0) /\ target_pane = last.tp0)

\* the reference the returned facade call leaves, having selected h: kill
\* clears it
LeftSelected(h) == IF last.op = "CLI.kill" THEN None ELSE h

\* C33, amended: ... and the reference stays, except after kill, which
\* clears it once the kill-pane was issued: a later operation with pane
\* omitted then has no target.
C33_FacadeSelectsThenOperatesKillClears ==
    (last.op \in FacadeOps /\ mode = "local") =>
        /\ (Truthy(last.pane_id) /\ Picked # None)
              => (OperatedOn(Picked) /\ target_pane = LeftSelected(Picked))
        /\ (~Truthy(last.pane_id) /\ Truthy(last.tp0))
              => (OperatedOn(last.tp0) /\ target_pane = LeftSelected(last.tp0))
        /\ (Truthy(last.pane_id) /\ Picked = None /\ Truthy(last.tp0))
              => (OperatedOn(last.tp0) /\ target_pane = LeftSelected(last.tp0))
        /\ (~Truthy(Or(Picked, last.tp0)))
              => (target_pane = None /\ \A k \in 1..Len(last.cmds) : last.cmds[k].t = "")

\* an index resolved to a pane other than the one selected before, which the
\* call operated on and left selected
C33_Witness ==
    /\ last.op = "CLI.send" /\ mode = "local"
    /\ IsDigit(last.pane_id) /\ Picked # None
    /\ Truthy(last.tp0) /\ last.tp0 # Picked
    /\ target_pane = Picked
    /\ Issued(last.cmds, "send-keys", Picked)

\* ------------------------------------------ claims C34 (SpecFlag)
\* C34: whatever the interleaving of pre-task and post-task hook runs, the
\* flag file exists exactly when a subtask is in progress, and the file-size
\* hook takes the reader for the main agent exactly when none was in progress
\* when it ran, nested and concurrent subtasks included.
C34_FlagIffSubtaskInProgress ==
    subtask.pc = "on" =>
        /\ subtask.flag <=> subtask.running > 0
        /\ subtask.decision # None => (subtask.is_main_agent <=> subtask.running0 = 0)

\* ------------------------------------------ claims C35 (SpecVault)
\* content c can be read back from a backup file
Recoverable(c) == \E n \in DOMAIN vault.backups : vault.backups[n] = c

\* C35: decrypt never loses the local .env: when .env exists and decrypt
\* goes on to write it, the previous content is first kept under a
\* timestamped backup name, and every content so kept stays recoverable,
\* whether sops succeeds or fails and however often decrypt is called; when
\* the encrypted file is missing or the user declines, nothing is changed.
C35_DecryptNeverLosesEnv ==
    vault.pc = "on" =>
        /\ \A c \in vault.renamed : Recoverable(c)
        /\ (vault.ret # None /\ vault.wrote /\ vault.before.env # NoFile)
              => Recoverable(vault.before.env)
        /\ (vault.ret # None /\ ~vault.wrote)
              => (vault.env = vault.before.env /\ vault.backups = vault.before.backups)

====
